---- MODULE Spec2Model ----
(***************************************************************************)
(* Collaborative canvas: the server-authoritative history and undo/redo    *)
(* engine (the socket.io handlers of the server) and the canvas client     *)
(* that mirrors it (CanvasApp).                                            *)
(*                                                                         *)
(* Node runs every handler to completion, so each handler is one action.   *)
(***************************************************************************)
EXTENDS Integers, Sequences, FiniteSets, TLC

\* ------------------------------------------------------------------ bounds
MaxHistory == 3      \* Spec: endStroke requests are generated while a log is shorter
MaxRequests == 3     \* SpecSync: endStroke/undo/redo/clear requests the clients emit
MaxJoins == 2        \* SpecSync: join requests the clients emit
MaxShort == 3        \* SpecShort: endStroke/undo/redo/clear requests the clients emit
MaxOps == 2          \* SpecRooms: operations stored over all the rooms

\* ------------------------------------------------------------- value sets
Conns == {"c1", "c2"}                 \* socket ids
RoomIds == {"default"}                \* the room id the shipped client joins (main.js)
StrokeIds == {"s1", "s2", "s3"}       \* ids a client can put in strokeId
IdPool == <<"s1", "s2", "s3", "s4", "s5">>  \* SpecSync: what generateId() returns, in turn
UuidPool == {"u1"}                    \* ids uuidv4() can return
Undefined == "undefined"              \* an absent field / JS undefined
NoConn == "nobody"

VARIABLES
    rooms,      \* server: roomId -> {users, history, undoneStack}; created lazily
    sockRoom,   \* server: socket.data.roomId of each socket
    sockState,  \* "new" (not yet connected), "open", "closed"
    sioRooms,   \* socket.io adapter: the rooms each socket has join()ed
    last,       \* the handler that ran last and what it emitted
    scen,       \* progress of room "default" through the scenario s1 s2 undo s3 redo
    undoRedo,   \* an undo and the redo right after it: the room the undo found
    c2s,        \* messages in flight, client -> server, per connection (FIFO)
    s2c,        \* messages in flight, server -> client, per connection (FIFO)
    history,    \* CanvasApp.history of each client (operation ids, in order)
    undone,     \* CanvasApp.undone of each client
    currentStroke, \* CanvasApp.currentStroke.id while drawing, else Undefined
    joined,     \* main.js: joined, set when init arrives
    live,       \* the client's latest join found the room empty: it saw every event live
    ngen,       \* ids generateId() has returned
    nreq,       \* endStroke/undo/redo/clear requests the clients have emitted
    njoin,      \* join requests the clients have emitted
    applied,    \* the mutations the server has broadcast, in the order it applied them
    received    \* the mutation broadcasts each client has handled, in order

serverVars == <<rooms, sockRoom, sockState, sioRooms>>
monitorVars == <<scen, undoRedo>>
netVars == <<c2s, s2c>>
clientVars == <<history, undone, currentStroke, joined, live, ngen, nreq, njoin>>
orderVars == <<applied, received>>
vars == <<rooms, sockRoom, sockState, sioRooms, last, scen, undoRedo,
          c2s, s2c, history, undone, currentStroke, joined, live, ngen, nreq, njoin,
          applied, received>>

\* ------------------------------------------------------------ room state
EmptyRoom == [users |-> {}, history |-> <<>>, undoneStack |-> <<>>]

\* rooms[roomId], or what ensureRoom would create
RoomAt(rs, roomId) == IF roomId \in DOMAIN rs THEN rs[roomId] ELSE EmptyRoom

ensureRoom(rs, roomId) ==
    IF roomId \in DOMAIN rs THEN rs ELSE rs @@ (roomId :> EmptyRoom)

\* const roomId = socket.data.roomId || 'default'
RoomIdOf(c) == IF sockRoom[c] = Undefined THEN "default" ELSE sockRoom[c]

Range(s) == {s[i] : i \in 1..Len(s)}
Ids(h) == [i \in 1..Len(h) |-> h[i].id]
Front(s) == SubSeq(s, 1, Len(s) - 1)

\* room.undoneStack.includes(id)
Includes(stack, id) == \E i \in 1..Len(stack) : stack[i] = id

\* uuidv4() returns an id that no stored operation carries
FreshUuids(rs) ==
    UuidPool \ UNION {Range(Ids(rs[r].history)) : r \in DOMAIN rs}

\* variant: data.strokeId taken as it is, without the uuidv4() fallback
OpIdsRaw(strokeId, rs) == {strokeId}
\* data.strokeId || uuidv4()
OpIds(strokeId, rs) == IF strokeId = Undefined THEN FreshUuids(rs) ELSE {strokeId}

\* variant: the push without the reset of the redo stack
PushOpKeepUndone(room, op) == [room EXCEPT !.history = Append(@, op)]
\* The endStroke handler's effect on the room: push the op, reset the redo stack.
PushOp(room, op) ==
    [room EXCEPT !.history = Append(@, op), !.undoneStack = <<>>]

\* The undo handler's loop: for (i = history.length - 1; i >= 0; i--), stopping at
\* the first op whose id is not in undoneStack. 0 when the loop runs out.
RECURSIVE UndoScan(_, _)
UndoScan(room, i) ==
    IF i < 1 THEN 0
    ELSE IF ~Includes(room.undoneStack, room.history[i].id) THEN i
    ELSE UndoScan(room, i - 1)

\* variants of the scan: from the front of the log; without the includes() test
UndoTargetOldest(room) ==
    LET S == {i \in 1..Len(room.history) :
                 ~Includes(room.undoneStack, room.history[i].id)}
    IN  IF S = {} THEN 0 ELSE CHOOSE i \in S : \A j \in S : i <= j
UndoTargetLast(room) == Len(room.history)
\* variant: a scan that stops only at operations drawn by socket c1
UndoTargetOwned(room) ==
    LET S == {i \in 1..Len(room.history) :
                 /\ ~Includes(room.undoneStack, room.history[i].id)
                 /\ room.history[i].userId = "c1"}
    IN  IF S = {} THEN 0 ELSE CHOOSE i \in S : \A j \in S : j <= i
\* variant: when the scan runs out, the last operation is taken again
UndoTargetWrap(room) ==
    IF UndoScan(room, Len(room.history)) = 0 THEN Len(room.history)
    ELSE UndoScan(room, Len(room.history))
UndoTarget(room) == UndoScan(room, Len(room.history))

\* variant: an undo that takes the operation out of the log
UndoPushRemove(room, id) ==
    [room EXCEPT !.history = SelectSeq(@, LAMBDA op : op.id # id),
                 !.undoneStack = Append(@, id)]
\* room.undoneStack.push(op.id)
UndoPush(room, id) == [room EXCEPT !.undoneStack = Append(@, id)]

\* variant: shift() in place of pop()
PoppedFirst(room) ==
    IF room.undoneStack = <<>> THEN Undefined ELSE room.undoneStack[1]
\* room.undoneStack.pop(): the removed id (Undefined on an empty stack)
Popped(room) ==
    IF room.undoneStack = <<>> THEN Undefined
    ELSE room.undoneStack[Len(room.undoneStack)]

RedoPop(room) ==
    IF room.undoneStack = <<>> THEN room
    ELSE [room EXCEPT !.undoneStack = Front(@)]

\* variant: the clear without the reset of the redo stack
ClearKeepUndone(room) == [room EXCEPT !.history = <<>>]
\* room.history = []; room.undoneStack = []
ClearRoom(room) == [room EXCEPT !.history = <<>>, !.undoneStack = <<>>]

\* ------------------------------------------------------------- transport
\* io.in(roomId): every connected socket that join()ed roomId
InRoom(roomId) == {c \in Conns : sockState[c] = "open" /\ roomId \in sioRooms[c]}
\* socket.to(roomId): the same, without the sender
ToRoom(c, roomId) == InRoom(roomId) \ {c}

Msg(event, to, opId, by) ==
    [event |-> event, to |-> to, opId |-> opId, by |-> by,
     history |-> <<>>, undoneStack |-> <<>>, users |-> {}]

InitMsg(c, room) ==
    [event |-> "init", to |-> {c}, opId |-> Undefined, by |-> c,
     history |-> room.history, undoneStack |-> room.undoneStack, users |-> room.users]

UsersMsg(to, room) ==
    [event |-> "users", to |-> to, opId |-> Undefined, by |-> NoConn,
     history |-> <<>>, undoneStack |-> <<>>, users |-> room.users]

Handled(event, c, roomId, emits) ==
    [event |-> event, by |-> c, room |-> roomId, emits |-> emits]

\* the id a handler reported to the room (Undefined: nothing was broadcast)
Reported(l) ==
    IF l.emits # <<>> /\ l.emits[1].event = l.event THEN l.emits[1].opId
    ELSE Undefined

\* ------------------------------------------------------ scenario monitor
\* Follows room "default" through: (empty) endStroke s1, endStroke s2, undo,
\* endStroke s3, redo. A clear empties the room and restarts it; any other
\* mutation request off the script ends it (-1).
ScenNext(s, event, roomId, strokeId) ==
    IF roomId # "default" \/ event \notin {"endStroke", "undo", "redo", "clear"} THEN s
    ELSE IF event = "clear" THEN 0
    ELSE IF s = 0 /\ event = "endStroke" /\ strokeId = "s1" THEN 1
    ELSE IF s = 1 /\ event = "endStroke" /\ strokeId = "s2" THEN 2
    ELSE IF s = 2 /\ event = "undo" THEN 3
    ELSE IF s = 3 /\ event = "endStroke" /\ strokeId = "s3" THEN 4
    ELSE IF s = 4 /\ event = "redo" THEN 5
    ELSE -1

\* ------------------------------------------------- undo/redo pair monitor
Idle == [stage |-> 0, room |-> "default", history |-> <<>>, undoneStack |-> <<>>,
         opId |-> Undefined]

\* stage 1: the last handler was an undo that reported opId and found the room as
\* recorded; stage 2: a redo of the same room ran right after it.
UndoRedoNext(m, event, roomId, before, opId) ==
    IF event = "undo" /\ opId # Undefined
    THEN [stage |-> 1, room |-> roomId, history |-> before.history,
          undoneStack |-> before.undoneStack, opId |-> opId]
    ELSE IF event = "redo" /\ m.stage = 1 /\ m.room = roomId
    THEN [m EXCEPT !.stage = 2]
    ELSE Idle

\* ------------------------------------------------------- server handlers
\* Each On... is a handler's effect on the server's state; the ...Emits beside it
\* is what the handler emits, in order.

\* io.on('connection')
OnConnection(c) ==
    /\ sockState[c] = "new"
    /\ sockState' = [sockState EXCEPT ![c] = "open"]
    /\ UNCHANGED <<rooms, sockRoom, sioRooms>>

\* socket.on('join'): payload.roomId defaults to 'default'
JoinRoomId(payloadRoom) == IF payloadRoom = Undefined THEN "default" ELSE payloadRoom

OnJoin(c, payloadRoom) ==
    LET roomId == JoinRoomId(payloadRoom)
        rs == ensureRoom(rooms, roomId)
    IN  /\ sockState[c] = "open"
        /\ sioRooms' = [sioRooms EXCEPT ![c] = @ \cup {roomId}]
        /\ sockRoom' = [sockRoom EXCEPT ![c] = roomId]
        /\ rooms' = [rs EXCEPT ![roomId].users = @ \cup {c}]
        /\ UNCHANGED sockState

\* socket.emit('init'), socket.to(roomId).emit('user-join'), io.in(roomId).emit('users')
JoinEmits(c, payloadRoom) ==
    LET roomId == JoinRoomId(payloadRoom)
        room == rooms'[roomId]
        members == InRoom(roomId) \cup {c}
    IN  << InitMsg(c, room),
           Msg("user-join", members \ {c}, Undefined, c),
           UsersMsg(members, room) >>

\* socket.on('beginStroke'), socket.on('stroke'), socket.on('cursor'): relayed to
\* the others of the room; the handlers read socket.data.roomId and nothing else
RelayEvents == {"beginStroke", "stroke", "cursor"}

\* variant: a relay handler that also stores what it relays
OnRelayStore(c) ==
    LET roomId == RoomIdOf(c)
        rs == ensureRoom(rooms, roomId)
    IN  /\ sockState[c] = "open"
        /\ rooms' = [rs EXCEPT ![roomId].history =
                         Append(@, [id |-> "s1", userId |-> c, path |-> Undefined])]
        /\ UNCHANGED <<sockRoom, sockState, sioRooms>>

OnRelay(c) ==
    /\ sockState[c] = "open"
    /\ UNCHANGED <<rooms, sockRoom, sockState, sioRooms>>

\* socket.to(roomId).emit(event, { ...data, socketId })
RelayEmits(c, event) == << Msg(event, ToRoom(c, RoomIdOf(c)), Undefined, c) >>

\* the payload of an endStroke: strokeId, and path standing for the drawing
\* fields path / color / width (Undefined: the field is missing)
StrokeData(strokeId, path) == [strokeId |-> strokeId, path |-> path]

\* const op = { id: data.strokeId || uuidv4(), type, userId: socket.id, path, ... }
StoredOp(id, c, data) == [id |-> id, userId |-> c, path |-> data.path]

\* socket.on('endStroke')
OnEndStrokeData(c, data) ==
    LET roomId == RoomIdOf(c)
        rs == ensureRoom(rooms, roomId)
    IN  /\ sockState[c] = "open"
        /\ \E id \in OpIds(data.strokeId, rs) :
             rooms' = [rs EXCEPT ![roomId] = PushOp(@, StoredOp(id, c, data))]
        /\ UNCHANGED <<sockRoom, sockState, sioRooms>>

\* socket.on('endStroke') with a complete payload
OnEndStroke(c, strokeId) == OnEndStrokeData(c, StrokeData(strokeId, "path"))

\* io.in(roomId).emit('endStroke', op): the op just pushed
EndStrokeEmits(c) ==
    LET h == rooms'[RoomIdOf(c)].history
    IN  << Msg("endStroke", InRoom(RoomIdOf(c)), h[Len(h)].id, c) >>

\* socket.on('undo')
UndoReport(room) ==
    IF UndoTarget(room) = 0 THEN Undefined ELSE room.history[UndoTarget(room)].id

OnUndo(c) ==
    LET roomId == RoomIdOf(c)
        rs == ensureRoom(rooms, roomId)
        opId == UndoReport(rs[roomId])
    IN  /\ sockState[c] = "open"
        /\ rooms' = IF opId = Undefined THEN rs
                    ELSE [rs EXCEPT ![roomId] = UndoPush(@, opId)]
        /\ UNCHANGED <<sockRoom, sockState, sioRooms>>

\* io.in(roomId).emit('undo', { opId, by }) inside the loop, before break
UndoEmits(c) ==
    LET opId == UndoReport(RoomAt(rooms, RoomIdOf(c)))
    IN  IF opId = Undefined THEN <<>>
        ELSE << Msg("undo", InRoom(RoomIdOf(c)), opId, c) >>

\* socket.on('redo')
OnRedo(c) ==
    LET roomId == RoomIdOf(c)
        rs == ensureRoom(rooms, roomId)
    IN  /\ sockState[c] = "open"
        /\ rooms' = [rs EXCEPT ![roomId] = RedoPop(@)]
        /\ UNCHANGED <<sockRoom, sockState, sioRooms>>

\* if (id) io.in(roomId).emit('redo', { opId: id, by })
RedoEmits(c) ==
    LET id == Popped(RoomAt(rooms, RoomIdOf(c)))
    IN  IF id # Undefined THEN << Msg("redo", InRoom(RoomIdOf(c)), id, c) >>
        ELSE <<>>

\* socket.on('clear')
OnClear(c) ==
    LET roomId == RoomIdOf(c)
        rs == ensureRoom(rooms, roomId)
    IN  /\ sockState[c] = "open"
        /\ rooms' = [rs EXCEPT ![roomId] = ClearRoom(@)]
        /\ UNCHANGED <<sockRoom, sockState, sioRooms>>

ClearEmits(c) == << Msg("clear", InRoom(RoomIdOf(c)), Undefined, c) >>

\* socket.on('disconnect'): socket.io has already taken the socket out of its rooms
OnDisconnect(c) ==
    LET roomId == RoomIdOf(c)
    IN  /\ sockState[c] = "open"
        /\ sockState' = [sockState EXCEPT ![c] = "closed"]
        /\ sioRooms' = [sioRooms EXCEPT ![c] = {}]
        /\ rooms' = IF roomId \in DOMAIN rooms
                    THEN [rooms EXCEPT ![roomId].users = @ \ {c}]
                    ELSE rooms
        /\ UNCHANGED sockRoom

DisconnectEmits(c) ==
    LET roomId == RoomIdOf(c)
    IN  IF roomId \in DOMAIN rooms
        THEN << Msg("user-leave", ToRoom(c, roomId), Undefined, c),
                UsersMsg(ToRoom(c, roomId), rooms'[roomId]) >>
        ELSE <<>>

\* ------------------------------------------------------------------ Spec
\* The server driven by any sockets that speak the protocol: a request is handled
\* as soon as it is sent; `last` records the handler and what it emitted, and no
\* client state is modelled.
Init ==
    /\ rooms = <<>>
    /\ sockRoom = [c \in Conns |-> Undefined]
    /\ sockState = [c \in Conns |-> "new"]
    /\ sioRooms = [c \in Conns |-> {}]
    /\ last = Handled("none", NoConn, "default", <<>>)
    /\ scen = 0
    /\ undoRedo = Idle
    /\ c2s = [c \in Conns |-> <<>>]
    /\ s2c = [c \in Conns |-> <<>>]
    /\ history = [c \in Conns |-> <<>>]
    /\ undone = [c \in Conns |-> {}]
    /\ currentStroke = [c \in Conns |-> Undefined]
    /\ joined = [c \in Conns |-> FALSE]
    /\ live = [c \in Conns |-> FALSE]
    /\ ngen = 0
    /\ nreq = 0
    /\ njoin = 0
    /\ applied = <<>>
    /\ received = [c \in Conns |-> <<>>]

\* what the monitors record of a handled request
Observed(event, c, roomId, emits) ==
    /\ last' = Handled(event, c, roomId, emits)
    /\ scen' = ScenNext(scen, event, roomId, Reported(last'))
    /\ undoRedo' = UndoRedoNext(undoRedo, event, roomId, RoomAt(rooms, roomId),
                                Reported(last'))
    /\ UNCHANGED <<netVars, clientVars, orderVars>>

Connection ==
    \E c \in Conns :
        OnConnection(c) /\ Observed("connection", c, RoomIdOf(c), <<>>)

Join ==
    \E c \in Conns, r \in RoomIds \cup {Undefined} :
        OnJoin(c, r) /\ Observed("join", c, JoinRoomId(r), JoinEmits(c, r))

EndStroke ==
    \E c \in Conns, s \in StrokeIds \cup {Undefined} :
        /\ Len(RoomAt(rooms, RoomIdOf(c)).history) < MaxHistory
        /\ OnEndStroke(c, s)
        /\ Observed("endStroke", c, RoomIdOf(c), EndStrokeEmits(c))

Undo == \E c \in Conns : OnUndo(c) /\ Observed("undo", c, RoomIdOf(c), UndoEmits(c))

Redo == \E c \in Conns : OnRedo(c) /\ Observed("redo", c, RoomIdOf(c), RedoEmits(c))

Clear == \E c \in Conns : OnClear(c) /\ Observed("clear", c, RoomIdOf(c), ClearEmits(c))

Disconnect ==
    \E c \in Conns :
        OnDisconnect(c) /\ Observed("disconnect", c, RoomIdOf(c), DisconnectEmits(c))

Next ==
    \/ Connection
    \/ Join
    \/ EndStroke
    \/ Undo
    \/ Redo
    \/ Clear
    \/ Disconnect

Spec == Init /\ [][Next]_vars

\* -------------------------------------------------------------- SpecSync
\* The shipped system: CanvasApp clients, the server, and the socket.io
\* connections between them (ordered per connection). Every client joins room
\* 'default' (main.js). Stroke previews (beginStroke / stroke / cursor) and the
\* users / user-join / user-leave notices are left out of the queues: their
\* handlers draw pixels and cursors only.
SyncEvents == {"init", "endStroke", "undo", "redo", "clear"}

Request(event, strokeId) == [event |-> event, strokeId |-> strokeId]

Packet(m) ==
    [event |-> m.event, opId |-> m.opId, history |-> Ids(m.history),
     undoneStack |-> m.undoneStack]

\* variant: a connection that hands over the newest message first
DeliverFront(q, emits) ==
    [c \in Conns |->
        [i \in 1..Len(SelectSeq(emits, LAMBDA m : c \in m.to /\ m.event \in SyncEvents))
         |-> Packet(SelectSeq(emits, LAMBDA m : c \in m.to /\ m.event \in SyncEvents)[i])]
        \o q[c]]
\* socket.emit / io.in(room).emit / socket.to(room).emit: each recipient's queue
Deliver(q, emits) ==
    [c \in Conns |->
        q[c] \o [i \in 1..Len(SelectSeq(emits, LAMBDA m : c \in m.to /\ m.event \in SyncEvents))
                 |-> Packet(SelectSeq(emits, LAMBDA m : c \in m.to /\ m.event \in SyncEvents)[i])]]

\* SocketClient.emit
Emit(c, req) ==
    /\ nreq < MaxRequests
    /\ nreq' = nreq + 1
    /\ c2s' = [c2s EXCEPT ![c] = Append(@, req)]
    /\ UNCHANGED <<njoin, ngen>>

\* what identifies a mutation broadcast: its event and the operation id it names
MutationEvents == {"endStroke", "undo", "redo", "clear"}
Mutation(m) == [event |-> m.event, opId |-> m.opId]

\* the mutation broadcasts among a handler's emits, in order
Broadcasts(emits) ==
    LET bs == SelectSeq(emits, LAMBDA m : m.event \in MutationEvents)
    IN  [i \in 1..Len(bs) |-> Mutation(bs[i])]

HeadIs(q, c, event) == q[c] # <<>> /\ Head(q[c]).event = event

\* this.history.find(o => o.id === id)
Find(h, id) == \E i \in 1..Len(h) : h[i] = id

\* variant: the push without the find() test
PushAlways(h, id) == Append(h, id)
\* if (!this.history.find(...)) this.history.push(op)
PushIfAbsent(h, id) == IF Find(h, id) THEN h ELSE Append(h, id)

\* --- client: main.js and CanvasApp
\* joinBtn click
ClickJoin(c) ==
    /\ njoin < MaxJoins
    /\ njoin' = njoin + 1
    /\ c2s' = [c2s EXCEPT ![c] = Append(@, Request("join", Undefined))]
    /\ UNCHANGED <<serverVars, last, monitorVars, orderVars, s2c, history, undone,
                   currentStroke, joined, live, ngen, nreq>>

\* generateId(): 's_' + seven random base-36 digits, taken to be an id that no
\* stroke of the run carries yet
generateId == IdPool[ngen + 1]

\* pointerdown: beginLocalStroke
BeginLocalStroke(c) ==
    /\ nreq + Cardinality({d \in Conns : currentStroke[d] # Undefined}) < MaxRequests
    /\ currentStroke[c] = Undefined
    /\ currentStroke' = [currentStroke EXCEPT ![c] = generateId]
    /\ ngen' = ngen + 1
    /\ UNCHANGED <<serverVars, last, monitorVars, orderVars, netVars, history, undone,
                   joined, live, nreq, njoin>>

\* pointerup: endLocalStroke
EndLocalStroke(c) ==
    /\ currentStroke[c] # Undefined
    /\ Emit(c, Request("endStroke", currentStroke[c]))
    /\ history' = [history EXCEPT ![c] = PushIfAbsent(@, currentStroke[c])]
    /\ currentStroke' = [currentStroke EXCEPT ![c] = Undefined]
    /\ UNCHANGED <<serverVars, last, monitorVars, orderVars, s2c, undone, joined, live>>

\* undo / redo / clear buttons: if (!joined) return; app.requestUndo() ...
RequestCmd(c, event) ==
    /\ event \in {"undo", "redo", "clear"}
    /\ joined[c]
    /\ Emit(c, Request(event, Undefined))
    /\ UNCHANGED <<serverVars, last, monitorVars, orderVars, s2c, history, undone,
                   currentStroke, joined, live>>

\* variant: init merged into what the client holds
ClientInitMerge(c) ==
    /\ HeadIs(s2c, c, "init")
    /\ history' = [history EXCEPT ![c] =
                       Head(s2c[c]).history
                       \o SelectSeq(@, LAMBDA id : ~Find(Head(s2c[c]).history, id))]
    /\ undone' = [undone EXCEPT ![c] = @ \cup Range(Head(s2c[c]).undoneStack)]
    /\ joined' = [joined EXCEPT ![c] = TRUE]
    /\ s2c' = [s2c EXCEPT ![c] = Tail(@)]
    /\ UNCHANGED <<serverVars, last, monitorVars, orderVars, c2s, currentStroke, live,
                   ngen, nreq, njoin>>

\* socket.on('init')
ClientInit(c) ==
    /\ HeadIs(s2c, c, "init")
    /\ history' = [history EXCEPT ![c] = Head(s2c[c]).history]
    /\ undone' = [undone EXCEPT ![c] = Range(Head(s2c[c]).undoneStack)]
    /\ joined' = [joined EXCEPT ![c] = TRUE]
    /\ s2c' = [s2c EXCEPT ![c] = Tail(@)]
    /\ UNCHANGED <<serverVars, last, monitorVars, orderVars, c2s, currentStroke, live,
                   ngen, nreq, njoin>>

\* socket.on('endStroke')
ClientEndStroke(c) ==
    /\ HeadIs(s2c, c, "endStroke")
    /\ history' = [history EXCEPT ![c] = PushIfAbsent(@, Head(s2c[c]).opId)]
    /\ s2c' = [s2c EXCEPT ![c] = Tail(@)]
    /\ received' = [received EXCEPT ![c] = Append(@, Mutation(Head(s2c[c])))]
    /\ UNCHANGED <<serverVars, last, monitorVars, applied, c2s, undone, currentStroke,
                   joined, live, ngen, nreq, njoin>>

\* socket.on('undo')
ClientUndo(c) ==
    /\ HeadIs(s2c, c, "undo")
    /\ undone' = [undone EXCEPT ![c] = @ \cup {Head(s2c[c]).opId}]
    /\ s2c' = [s2c EXCEPT ![c] = Tail(@)]
    /\ received' = [received EXCEPT ![c] = Append(@, Mutation(Head(s2c[c])))]
    /\ UNCHANGED <<serverVars, last, monitorVars, applied, c2s, history, currentStroke,
                   joined, live, ngen, nreq, njoin>>

\* socket.on('redo')
ClientRedo(c) ==
    /\ HeadIs(s2c, c, "redo")
    /\ undone' = [undone EXCEPT ![c] = @ \ {Head(s2c[c]).opId}]
    /\ s2c' = [s2c EXCEPT ![c] = Tail(@)]
    /\ received' = [received EXCEPT ![c] = Append(@, Mutation(Head(s2c[c])))]
    /\ UNCHANGED <<serverVars, last, monitorVars, applied, c2s, history, currentStroke,
                   joined, live, ngen, nreq, njoin>>

\* socket.on('clear')
ClientClear(c) ==
    /\ HeadIs(s2c, c, "clear")
    /\ history' = [history EXCEPT ![c] = <<>>]
    /\ undone' = [undone EXCEPT ![c] = {}]
    /\ s2c' = [s2c EXCEPT ![c] = Tail(@)]
    /\ received' = [received EXCEPT ![c] = Append(@, Mutation(Head(s2c[c])))]
    /\ UNCHANGED <<serverVars, last, monitorVars, applied, c2s, currentStroke, joined,
                   live, ngen, nreq, njoin>>

\* --- server: the handler of the request at the head of a connection
Served(c, emits) ==
    /\ c2s' = [c2s EXCEPT ![c] = Tail(@)]
    /\ s2c' = Deliver(s2c, emits)
    /\ applied' = applied \o Broadcasts(emits)
    /\ UNCHANGED <<last, monitorVars, received, history, undone, currentStroke, joined,
                   ngen, nreq, njoin>>

ServeJoin(c) ==
    /\ HeadIs(c2s, c, "join")
    /\ OnJoin(c, "default")
    /\ live' = [live EXCEPT ![c] = RoomAt(rooms, "default").history = <<>>
                                   /\ RoomAt(rooms, "default").undoneStack = <<>>]
    /\ Served(c, JoinEmits(c, "default"))

ServeEndStroke(c) ==
    /\ HeadIs(c2s, c, "endStroke")
    /\ OnEndStroke(c, Head(c2s[c]).strokeId)
    /\ Served(c, EndStrokeEmits(c)) /\ UNCHANGED live

ServeUndo(c) ==
    HeadIs(c2s, c, "undo") /\ OnUndo(c) /\ Served(c, UndoEmits(c)) /\ UNCHANGED live

ServeRedo(c) ==
    HeadIs(c2s, c, "redo") /\ OnRedo(c) /\ Served(c, RedoEmits(c)) /\ UNCHANGED live

ServeClear(c) ==
    HeadIs(c2s, c, "clear") /\ OnClear(c) /\ Served(c, ClearEmits(c)) /\ UNCHANGED live

\* both sockets are connected when the pages have loaded (SocketClient.connect)
InitSync ==
    /\ rooms = <<>>
    /\ sockRoom = [c \in Conns |-> Undefined]
    /\ sockState = [c \in Conns |-> "open"]
    /\ sioRooms = [c \in Conns |-> {}]
    /\ last = Handled("none", NoConn, "default", <<>>)
    /\ scen = 0
    /\ undoRedo = Idle
    /\ c2s = [c \in Conns |-> <<>>]
    /\ s2c = [c \in Conns |-> <<>>]
    /\ history = [c \in Conns |-> <<>>]
    /\ undone = [c \in Conns |-> {}]
    /\ currentStroke = [c \in Conns |-> Undefined]
    /\ joined = [c \in Conns |-> FALSE]
    /\ live = [c \in Conns |-> FALSE]
    /\ ngen = 0
    /\ nreq = 0
    /\ njoin = 0
    /\ applied = <<>>
    /\ received = [c \in Conns |-> <<>>]

NextSync ==
    \/ \E c \in Conns : ClickJoin(c)
    \/ \E c \in Conns : BeginLocalStroke(c)
    \/ \E c \in Conns : EndLocalStroke(c)
    \/ \E c \in Conns, e \in {"undo", "redo", "clear"} : RequestCmd(c, e)
    \/ \E c \in Conns : ClientInit(c)
    \/ \E c \in Conns : ClientEndStroke(c)
    \/ \E c \in Conns : ClientUndo(c)
    \/ \E c \in Conns : ClientRedo(c)
    \/ \E c \in Conns : ClientClear(c)
    \/ \E c \in Conns : ServeJoin(c)
    \/ \E c \in Conns : ServeEndStroke(c)
    \/ \E c \in Conns : ServeUndo(c)
    \/ \E c \in Conns : ServeRedo(c)
    \/ \E c \in Conns : ServeClear(c)

SpecSync == InitSync /\ [][NextSync]_vars

\* ------------------------------------------------------------- SpecShort
\* SpecSync cut to short runs: the clients emit at most MaxShort requests, and
\* draw as many strokes and emit as many joins as there are clients.
Short(A) ==
    /\ A
    /\ nreq' <= MaxShort
    /\ njoin' <= Cardinality(Conns)
    /\ ngen' <= Cardinality(Conns)

NextShort ==
    \/ \E c \in Conns : Short(ClickJoin(c))
    \/ \E c \in Conns : Short(BeginLocalStroke(c))
    \/ \E c \in Conns : Short(EndLocalStroke(c))
    \/ \E c \in Conns, e \in {"undo", "redo", "clear"} : Short(RequestCmd(c, e))
    \/ \E c \in Conns : ClientInit(c)
    \/ \E c \in Conns : ClientEndStroke(c)
    \/ \E c \in Conns : ClientUndo(c)
    \/ \E c \in Conns : ClientRedo(c)
    \/ \E c \in Conns : ClientClear(c)
    \/ \E c \in Conns : ServeJoin(c)
    \/ \E c \in Conns : ServeEndStroke(c)
    \/ \E c \in Conns : ServeUndo(c)
    \/ \E c \in Conns : ServeRedo(c)
    \/ \E c \in Conns : ServeClear(c)

SpecShort == InitSync /\ [][NextShort]_vars

\* ------------------------------------------------------------- SpecRooms
\* The server with two rooms. Sockets are connected from the start and may join
\* either room, one after the other (socket.join never leaves the earlier room).
RoomNames == {"default", "studio"}
PayloadRooms == {Undefined, "studio"}      \* payload.roomId of a join
PayloadStrokeIds == {"s1", Undefined}      \* data.strokeId of an endStroke
PayloadPaths == {"path", Undefined}        \* data.path of an endStroke

\* operations stored over all rooms
StoredOps(rs) ==
    Cardinality(UNION {{<<r, i>> : i \in 1..Len(rs[r].history)} : r \in DOMAIN rs})

InitRooms ==
    /\ rooms = <<>>
    /\ sockRoom = [c \in Conns |-> Undefined]
    /\ sockState = [c \in Conns |-> "open"]
    /\ sioRooms = [c \in Conns |-> {}]
    /\ last = Handled("none", NoConn, "default", <<>>)
    /\ scen = 0
    /\ undoRedo = Idle
    /\ c2s = [c \in Conns |-> <<>>]
    /\ s2c = [c \in Conns |-> <<>>]
    /\ history = [c \in Conns |-> <<>>]
    /\ undone = [c \in Conns |-> {}]
    /\ currentStroke = [c \in Conns |-> Undefined]
    /\ joined = [c \in Conns |-> FALSE]
    /\ live = [c \in Conns |-> FALSE]
    /\ ngen = 0
    /\ nreq = 0
    /\ njoin = 0
    /\ applied = <<>>
    /\ received = [c \in Conns |-> <<>>]

Recorded(event, c, roomId, emits) ==
    /\ last' = Handled(event, c, roomId, emits)
    /\ UNCHANGED <<monitorVars, netVars, orderVars, history, undone, joined, live,
                   ngen, nreq, njoin>>

RoomsJoin ==
    \E c \in Conns, r \in PayloadRooms :
        /\ OnJoin(c, r)
        /\ Recorded("join", c, JoinRoomId(r), JoinEmits(c, r))
        /\ UNCHANGED currentStroke

RoomsEndStroke ==
    \E c \in Conns, s \in PayloadStrokeIds :
        /\ StoredOps(rooms) < MaxOps
        /\ OnEndStroke(c, s)
        /\ Recorded("endStroke", c, RoomIdOf(c), EndStrokeEmits(c))
        /\ UNCHANGED currentStroke

RoomsUndo ==
    \E c \in Conns :
        /\ OnUndo(c)
        /\ Recorded("undo", c, RoomIdOf(c), UndoEmits(c))
        /\ UNCHANGED currentStroke

RoomsRedo ==
    \E c \in Conns :
        /\ OnRedo(c)
        /\ Recorded("redo", c, RoomIdOf(c), RedoEmits(c))
        /\ UNCHANGED currentStroke

RoomsClear ==
    \E c \in Conns :
        /\ OnClear(c)
        /\ Recorded("clear", c, RoomIdOf(c), ClearEmits(c))
        /\ UNCHANGED currentStroke

RoomsDisconnect ==
    \E c \in Conns :
        /\ OnDisconnect(c)
        /\ Recorded("disconnect", c, RoomIdOf(c), DisconnectEmits(c))
        /\ UNCHANGED currentStroke

NextRooms ==
    \/ RoomsJoin
    \/ RoomsEndStroke
    \/ RoomsUndo
    \/ RoomsRedo
    \/ RoomsClear
    \/ RoomsDisconnect

SpecRooms == InitRooms /\ [][NextRooms]_vars

\* ------------------------------------------------------------- SpecRelay
\* One room, with the relay handlers and endStroke payloads that may lack the
\* drawing fields. currentStroke[c] says that the client of socket c has begun a
\* stroke (beginStroke sent) that it has not ended.
RelayJoin ==
    \E c \in Conns :
        /\ OnJoin(c, Undefined)
        /\ Recorded("join", c, "default", JoinEmits(c, Undefined))
        /\ UNCHANGED currentStroke

RelayPreview ==
    \E c \in Conns, e \in RelayEvents :
        /\ OnRelay(c)
        /\ Recorded(e, c, RoomIdOf(c), RelayEmits(c, e))
        /\ currentStroke' = IF e = "beginStroke"
                            THEN [currentStroke EXCEPT ![c] = "s1"]
                            ELSE currentStroke

RelayEndStroke ==
    \E c \in Conns, s \in PayloadStrokeIds, p \in PayloadPaths :
        /\ StoredOps(rooms) < MaxOps
        /\ OnEndStrokeData(c, StrokeData(s, p))
        /\ Recorded("endStroke", c, RoomIdOf(c), EndStrokeEmits(c))
        /\ currentStroke' = [currentStroke EXCEPT ![c] = Undefined]

NextRelay ==
    \/ RelayJoin
    \/ RelayPreview
    \/ RelayEndStroke
    \/ RoomsUndo
    \/ RoomsRedo
    \/ RoomsClear
    \/ RoomsDisconnect

SpecRelay == InitRooms /\ [][NextRelay]_vars

\* ------------------------------------------------------- drawing-state.js
\* The module's functions as operators on drawingStates (roomId -> { history,
\* undoneStack }): each yields the table it leaves and the value it returns.
Null == "null"
NewDrawingState == [history |-> <<>>, undoneStack |-> <<>>]

\* if (!drawingStates[roomId]) drawingStates[roomId] = { history: [], undoneStack: [] }
createDrawingState(dss, roomId) ==
    IF roomId \in DOMAIN dss THEN dss ELSE dss @@ (roomId :> NewDrawingState)

\* drawingStates[roomId] || { history: [], undoneStack: [] }
getDrawingState(dss, roomId) ==
    IF roomId \in DOMAIN dss THEN dss[roomId] ELSE NewDrawingState

\* variant: an append that keeps the redo stack
addOperationKeepUndone(dss, roomId, op) ==
    LET ds == createDrawingState(dss, roomId)
    IN  [states |-> [ds EXCEPT ![roomId].history = Append(@, op)], result |-> op]
\* ds.history.push(op); ds.undoneStack = []; return op
addOperationToRoom(dss, roomId, op) ==
    LET ds == createDrawingState(dss, roomId)
    IN  [states |-> [ds EXCEPT ![roomId] =
                        [history |-> Append(@.history, op), undoneStack |-> <<>>]],
         result |-> op]

\* for (let i = ds.history.length - 1; i >= 0; i--) with the first op whose id
\* undoneStack does not include; 0 when the loop ends without a return
RECURSIVE UndoLoop(_, _)
UndoLoop(ds, i) ==
    IF i = 0 THEN 0
    ELSE IF \A k \in 1..Len(ds.undoneStack) : ds.undoneStack[k] # ds.history[i].id
         THEN i
         ELSE UndoLoop(ds, i - 1)

\* ds.undoneStack.push(op.id); return op.id  /  return null
requestUndoInRoom(dss, roomId) ==
    LET created == createDrawingState(dss, roomId)
        ds == created[roomId]
        i == UndoLoop(ds, Len(ds.history))
    IN  IF i = 0 THEN [states |-> created, result |-> Null]
        ELSE [states |-> [created EXCEPT ![roomId].undoneStack =
                              Append(@, ds.history[i].id)],
              result |-> ds.history[i].id]

\* if (ds.undoneStack.length === 0) return null; return ds.undoneStack.pop()
requestRedoInRoom(dss, roomId) ==
    LET created == createDrawingState(dss, roomId)
        st == created[roomId].undoneStack
    IN  IF Len(st) = 0 THEN [states |-> created, result |-> Null]
        ELSE [states |-> [created EXCEPT ![roomId].undoneStack =
                              SubSeq(st, 1, Len(st) - 1)],
              result |-> st[Len(st)]]

\* ds.history = []; ds.undoneStack = []
clearRoomHistory(dss, roomId) ==
    [states |-> [createDrawingState(dss, roomId) EXCEPT ![roomId] = NewDrawingState],
     result |-> Null]

\* ================================================================ claims
HistoryOf(rs, roomId) == RoomAt(rs, roomId).history
StackOf(rs, roomId) == RoomAt(rs, roomId).undoneStack

\* what a room shows: the ids of its log that are not suppressed
Visible(room) == Range(Ids(room.history)) \ Range(room.undoneStack)
\* what a client draws (redrawAll): its history minus its undone set
ClientVisible(c) == Range(history[c]) \ undone[c]

\* every message in flight has been delivered
Quiescent == \A c \in Conns : c2s[c] = <<>> /\ s2c[c] = <<>>

HasDuplicateIds(h) == \E i, j \in 1..Len(h) : i # j /\ h[i].id = h[j].id

\* C1 - Reconstruction fidelity: once everything is delivered, a client that
\* adopted the init snapshot at any point shows the same set of operation ids as
\* a client of the same room that was joined from the start and applied every
\* broadcast live.
C1_ReconstructionFidelity ==
    Quiescent =>
        \A c, d \in Conns :
            (live[c] /\ joined[c] /\ joined[d]
                /\ sockRoom[c] = "default" /\ sockRoom[d] = "default")
            => ClientVisible(c) = ClientVisible(d)

\* C2 - Convergence: once the clients are silent and everything is delivered,
\* every joined client's visible set equals the server's history minus
\* undoneStack for its room.
C2_Convergence ==
    Quiescent =>
        \A c \in Conns :
            (joined[c] /\ sockRoom[c] # Undefined)
            => ClientVisible(c) = Visible(rooms[sockRoom[c]])

\* C3 - In every reachable state of every room the operation ids in the log are
\* pairwise distinct.
C3_UniqueIds == \A r \in DOMAIN rooms : ~HasDuplicateIds(rooms[r].history)

\* C4 - Append is idempotent on the id: an endStroke whose id is already in the
\* room's log leaves the log and undoneStack exactly as they were.
C4_Step ==
    (last'.event = "endStroke"
        /\ Includes(Ids(HistoryOf(rooms, last'.room)), Reported(last')))
    => /\ HistoryOf(rooms', last'.room) = HistoryOf(rooms, last'.room)
       /\ StackOf(rooms', last'.room) = StackOf(rooms, last'.room)

C4_AppendIdempotent == [][C4_Step]_vars

\* C5 - In every reachable state of every room, every id in undoneStack is the id
\* of an operation in the log, and undoneStack holds no id twice.
C5_SuppressedSubset ==
    \A r \in DOMAIN rooms :
        /\ Range(rooms[r].undoneStack) \subseteq Range(Ids(rooms[r].history))
        /\ \A i, j \in 1..Len(rooms[r].undoneStack) :
               i # j => rooms[r].undoneStack[i] # rooms[r].undoneStack[j]

\* two undos have run on a log that holds one id twice
C5_Witness ==
    /\ last.event = "undo"
    /\ Len(StackOf(rooms, last.room)) >= 2
    /\ HasDuplicateIds(HistoryOf(rooms, last.room))

\* C6 - Redo invalidation: right after an endStroke is appended, the room's
\* undoneStack is empty, and a redo of that state pops nothing and reports nothing.
C6_RedoInvalidated ==
    last.event = "endStroke" =>
        /\ StackOf(rooms, last.room) = <<>>
        /\ Popped(RoomAt(rooms, last.room)) = Undefined
        /\ RedoPop(RoomAt(rooms, last.room)) = RoomAt(rooms, last.room)

\* s3 has just been appended to a room whose undoneStack held s2
C6_Witness == scen = 4 /\ last.event = "endStroke" /\ Reported(last) = "s3"

\* C7 - Undo/redo inverse law: an undo that reports an id, immediately followed
\* by a redo, reports the same id both times and leaves the log and undoneStack
\* as the undo found them.
C7_UndoRedoInverse ==
    undoRedo.stage = 2 =>
        /\ last.event = "redo"
        /\ Reported(last) = undoRedo.opId
        /\ HistoryOf(rooms, undoRedo.room) = undoRedo.history
        /\ StackOf(rooms, undoRedo.room) = undoRedo.undoneStack

\* the pair ran on a room that already had something suppressed
C7_Witness == undoRedo.stage = 2 /\ undoRedo.undoneStack # <<>>

\* C8 - Undo suppresses the latest operation in log order that is not suppressed
\* and appends its id to undoneStack; redo removes and reports the last id of
\* undoneStack. With log [A,B,C]: undo reports C, undo reports B, redo reports B.
Unsuppressed(room) ==
    {i \in 1..Len(room.history) : room.history[i].id \notin Range(room.undoneStack)}

Max(S) == CHOOSE x \in S : \A y \in S : y <= x

C8_UndoStep ==
    LET r == last'.room
        room == RoomAt(rooms, r)
    IN  last'.event = "undo" =>
            /\ HistoryOf(rooms', r) = room.history
            /\ IF Unsuppressed(room) = {}
               THEN Reported(last') = Undefined /\ StackOf(rooms', r) = room.undoneStack
               ELSE /\ Reported(last') = room.history[Max(Unsuppressed(room))].id
                    /\ StackOf(rooms', r) = Append(room.undoneStack, Reported(last'))

C8_RedoStep ==
    LET r == last'.room
        room == RoomAt(rooms, r)
    IN  (last'.event = "redo" /\ room.undoneStack # <<>>) =>
            /\ HistoryOf(rooms', r) = room.history
            /\ Reported(last') = room.undoneStack[Len(room.undoneStack)]
            /\ StackOf(rooms', r) = Front(room.undoneStack)

C8_Example ==
    LET r == last'.room
        room == RoomAt(rooms, r)
        ids == Ids(room.history)
    IN  (last'.event \in {"undo", "redo"} /\ Len(ids) = 3
            /\ ~HasDuplicateIds(room.history)) =>
            /\ (last'.event = "undo" /\ room.undoneStack = <<>>)
                   => Reported(last') = ids[3]
            /\ (last'.event = "undo" /\ room.undoneStack = <<ids[3]>>)
                   => Reported(last') = ids[2]
            /\ (last'.event = "redo" /\ room.undoneStack = <<ids[3], ids[2]>>)
                   => Reported(last') = ids[2]

C8_UndoRedoOrder == [][C8_UndoStep /\ C8_RedoStep /\ C8_Example]_vars

\* log [s1,s2,s3]: after undo (s3), undo (s2), the redo has reported s2
C8_Witness ==
    /\ last.event = "redo"
    /\ Reported(last) = "s2"
    /\ Ids(HistoryOf(rooms, last.room)) = <<"s1", "s2", "s3">>
    /\ StackOf(rooms, last.room) = <<"s3">>

\* C9 - Clear irreversibility: right after a clear the room's log and undoneStack
\* are empty and an undo or a redo of that state reports nothing; undo and redo
\* requests on an emptied room report nothing and leave it empty.
C9_AfterClear ==
    last.event = "clear" =>
        /\ HistoryOf(rooms, last.room) = <<>>
        /\ StackOf(rooms, last.room) = <<>>
        /\ UndoReport(RoomAt(rooms, last.room)) = Undefined
        /\ Popped(RoomAt(rooms, last.room)) = Undefined

C9_Step ==
    LET r == last'.room
    IN  (last'.event \in {"undo", "redo"}
            /\ HistoryOf(rooms, r) = <<>> /\ StackOf(rooms, r) = <<>>)
        => /\ Reported(last') = Undefined
           /\ HistoryOf(rooms', r) = <<>>
           /\ StackOf(rooms', r) = <<>>

C9_ClearIrreversible == []C9_AfterClear /\ [][C9_Step]_vars

\* a clear has been broadcast to two members of the room
C9_Witness ==
    /\ last.event = "clear"
    /\ Len(last.emits) = 1
    /\ Cardinality(last.emits[1].to) = 2

\* C10 - Scenario: empty room, append s1, append s2, undo (reports s2), append
\* s3, redo (reports nothing): the final visible set is {s1, s3}.
C10_Scenario ==
    /\ (scen = 3 /\ last.event = "undo") => Reported(last) = "s2"
    /\ (scen = 5 /\ last.event = "redo") => Reported(last) = Undefined
    /\ scen = 5 => Visible(RoomAt(rooms, "default")) = {"s1", "s3"}

\* C11 - Ordering guarantee: what a member has handled, followed by what is still
\* on its way to it, is the tail of the sequence of mutations in the order the
\* server applied them; so all members see the endStroke/undo/redo/clear
\* broadcasts in one order, the server's, also when clients send concurrently.
IsSuffix(s, q) ==
    Len(s) <= Len(q) /\ SubSeq(q, Len(q) - Len(s) + 1, Len(q)) = s

C11_Ordering ==
    \A c \in Conns : IsSuffix(received[c] \o Broadcasts(s2c[c]), applied)

\* both clients drew at the same time (each lists its own stroke first) and both
\* have handled the two broadcasts
C11_Witness ==
    /\ Len(applied) = 2
    /\ \A c \in Conns : received[c] = applied
    /\ history["c1"] # history["c2"]

\* C12 - Stroke finalization: every endStroke the server processes stores exactly
\* one operation at the end of the room's log and broadcasts that operation,
\* with the same id, to every connected member of the room and to the client
\* that sent the endStroke.
C12_Step ==
    LET r == last'.room
        before == HistoryOf(rooms, r)
        after == HistoryOf(rooms', r)
    IN  last'.event = "endStroke" =>
            /\ Len(after) = Len(before) + 1
            /\ SubSeq(after, 1, Len(before)) = before
            /\ Len(last'.emits) = 1
            /\ last'.emits[1].event = "endStroke"
            /\ last'.emits[1].opId = after[Len(after)].id
            /\ \A u \in RoomAt(rooms', r).users :
                   sockState[u] = "open" => u \in last'.emits[1].to
            /\ last'.by \in last'.emits[1].to

C12_Finalization == [][C12_Step]_vars

\* C13 - Join: the init sent to a joining client carries the room's log and
\* undoneStack as they are when the join is processed, and the joiner is then in
\* the room's users; a client that handles init replaces its history and its
\* undone set by the snapshot, whatever it held before.
C13_ServerStep ==
    \A c \in Conns :
        (HeadIs(c2s, c, "join") /\ c2s'[c] = Tail(c2s[c])) =>
            /\ c \in rooms'["default"].users
            /\ HistoryOf(rooms', "default") = HistoryOf(rooms, "default")
            /\ StackOf(rooms', "default") = StackOf(rooms, "default")
            /\ s2c'[c] = Append(s2c[c],
                    [event |-> "init", opId |-> Undefined,
                     history |-> Ids(HistoryOf(rooms, "default")),
                     undoneStack |-> StackOf(rooms, "default")])

C13_ClientStep ==
    \A c \in Conns :
        (HeadIs(s2c, c, "init") /\ s2c'[c] = Tail(s2c[c])) =>
            /\ history'[c] = Head(s2c[c]).history
            /\ undone'[c] = Range(Head(s2c[c]).undoneStack)

C13_JoinSnapshot == [][C13_ServerStep /\ C13_ClientStep]_vars

\* no clear was applied, the client's own stroke is still on its way to the
\* server, and the client holds the server's non-empty log without that stroke:
\* init replaced the history that held it
C13_Witness ==
    \E c \in Conns :
        /\ joined[c] /\ s2c[c] = <<>>
        /\ \A i \in 1..Len(applied) : applied[i].event # "clear"
        /\ Len(c2s[c]) = 1 /\ Head(c2s[c]).event = "endStroke"
        /\ ~Find(history[c], Head(c2s[c]).strokeId)
        /\ history[c] # <<>>
        /\ history[c] = Ids(HistoryOf(rooms, "default"))

\* C14 - The log and undoneStack of a room change only in the endStroke, undo,
\* redo and clear handlers: join, beginStroke, stroke, cursor and disconnect leave
\* the log and undoneStack of every room as they were, so a client that
\* disconnects in the middle of a stroke leaves nothing of it in the log.
FrameEvents == {"join", "disconnect"} \cup RelayEvents

C14_Step ==
    last'.event \in FrameEvents =>
        \A r \in RoomNames :
            /\ HistoryOf(rooms', r) = HistoryOf(rooms, r)
            /\ StackOf(rooms', r) = StackOf(rooms, r)

C14_Frame == [][C14_Step]_vars

\* a socket has disconnected with a stroke begun and not ended, in a room whose
\* log and undoneStack hold something
C14_Witness ==
    /\ last.event = "disconnect"
    /\ currentStroke[last.by] # Undefined
    /\ sockRoom[last.by] = "default"
    /\ StackOf(rooms, "default") # <<>>

\* C15 - A malformed message is rejected for that message only: an endStroke
\* whose payload lacks the drawing fields (path, color, width) leaves the room's
\* log and undoneStack as they were and is not broadcast, and its sender stays
\* connected.
C15_Step ==
    \A c \in Conns, s \in PayloadStrokeIds :
        (/\ last'.event = "endStroke" /\ last'.by = c
         /\ OnEndStrokeData(c, StrokeData(s, Undefined)))
        => /\ HistoryOf(rooms', last'.room) = HistoryOf(rooms, last'.room)
           /\ StackOf(rooms', last'.room) = StackOf(rooms, last'.room)
           /\ last'.emits = <<>>
           /\ sockState'[c] = "open"

C15_MalformedRejected == [][C15_Step]_vars

\* C16 - Nothing to undo and nothing to redo are no-ops: an undo of a room whose
\* log is empty or wholly suppressed, and a redo of a room whose undoneStack is
\* empty, leave the log and undoneStack as they were, have no id to report and
\* broadcast nothing.
C16_Step ==
    LET r == last'.room
        room == RoomAt(rooms, r)
        Same == /\ HistoryOf(rooms', r) = room.history
                /\ StackOf(rooms', r) = room.undoneStack
                /\ last'.emits = <<>>
    IN  /\ (last'.event = "undo" /\ Unsuppressed(room) = {})
               => (Same /\ UndoReport(room) = Undefined)
        /\ (last'.event = "redo" /\ room.undoneStack = <<>>)
               => (Same /\ Popped(room) = Undefined)

C16_NothingToDo == [][C16_Step]_vars

\* an undo has found every operation of a non-empty log suppressed
C16_Witness ==
    /\ last.event = "undo" /\ last.emits = <<>>
    /\ HistoryOf(rooms, last.room) # <<>>
    /\ Unsuppressed(RoomAt(rooms, last.room)) = {}

\* C17 - Deterministic replay order: once every message is delivered, the local
\* history of every joined client lists the operation ids in the order of the
\* server's log of the room, also for a client that appended its own stroke
\* locally before the server's echo arrived.
C17_ReplayOrder ==
    Quiescent =>
        \A c \in Conns :
            (joined[c] /\ sockRoom[c] # Undefined)
            => history[c] = Ids(HistoryOf(rooms, sockRoom[c]))

\* C18 - Room independence: an endStroke, undo, redo or clear processed for room
\* R leaves the log and undoneStack of every other room as they were, and is
\* broadcast to no client whose room (the one it joined last) is another room.
C18_OthersUnchanged ==
    last'.event \in MutationEvents =>
        \A q \in RoomNames \ {last'.room} :
            /\ HistoryOf(rooms', q) = HistoryOf(rooms, q)
            /\ StackOf(rooms', q) = StackOf(rooms, q)

C18_NoForeignRecipient ==
    last'.event \in MutationEvents =>
        \A i \in 1..Len(last'.emits) :
            \A u \in last'.emits[i].to : sockRoom[u] = last'.room

C19_Step ==
    \A r \in RoomNames :
        LET before == HistoryOf(rooms, r)
            after == HistoryOf(rooms', r)
        IN  /\ \/ last'.event = "clear" /\ last'.room = r
               \/ after = before
               \/ Len(after) = Len(before) + 1 /\ SubSeq(after, 1, Len(before)) = before
            /\ last'.event \in {"undo", "redo"} => after = before

C19_AppendOnly == [][C19_Step]_vars

\* both operations of a log were undone and one has been redone: the log still
\* holds both
C19_Witness ==
    /\ last.event = "redo" /\ Reported(last) # Undefined
    /\ Len(HistoryOf(rooms, last.room)) = 2
    /\ Len(StackOf(rooms, last.room)) = 1

\* C20 - Undo and redo are global: the id an undo or a redo reports and the room
\* state it leaves are those computed from the log's ids, in log order, and the
\* undoneStack alone; they are the same whichever member sends the request and
\* whoever drew the operations.
Anonymous(room) ==
    [room EXCEPT !.history = [i \in 1..Len(@) |-> [@[i] EXCEPT !.userId = NoConn]]]

C20_Step ==
    LET r == last'.room
        room == RoomAt(rooms, r)
        anon == Anonymous(room)
    IN  /\ last'.event = "undo" =>
               /\ Reported(last') = UndoReport(anon)
               /\ HistoryOf(rooms', r) = room.history
               /\ StackOf(rooms', r) =
                      IF UndoReport(anon) = Undefined THEN room.undoneStack
                      ELSE UndoPush(anon, UndoReport(anon)).undoneStack
        /\ last'.event = "redo" =>
               /\ Reported(last') = Popped(anon)
               /\ HistoryOf(rooms', r) = room.history
               /\ StackOf(rooms', r) = RedoPop(anon).undoneStack

C20_GlobalUndo == [][C20_Step]_vars

\* a member has undone an operation that another socket drew, in a log that
\* holds an earlier operation of its own
C20_Witness ==
    LET h == HistoryOf(rooms, last.room)
    IN  /\ last.event = "undo"
        /\ Len(h) = 2
        /\ h[1].userId = last.by /\ h[2].userId # last.by
        /\ h[1].id # h[2].id
        /\ Reported(last) = h[2].id
        /\ StackOf(rooms, last.room) = <<h[2].id>>

\* C21 - Recording a stroke stores one operation with a defined id and
\* broadcasts that same operation: the id is the payload's strokeId when the
\* payload has one and otherwise a newly assigned id that no stored operation
\* carries, so every operation of every room's log has a defined id.
C21_AllDefined ==
    \A r \in DOMAIN rooms :
        \A i \in 1..Len(rooms[r].history) : rooms[r].history[i].id # Undefined

C21_Step ==
    \A c \in Conns, s \in PayloadStrokeIds, p \in PayloadPaths :
        (/\ last'.event = "endStroke" /\ last'.by = c
         /\ OnEndStrokeData(c, StrokeData(s, p)))
        => LET before == HistoryOf(rooms, last'.room)
               after == HistoryOf(rooms', last'.room)
               op == after[Len(after)]
           IN  /\ Len(after) = Len(before) + 1
               /\ SubSeq(after, 1, Len(before)) = before
               /\ op.id # Undefined
               /\ s # Undefined => op.id = s
               /\ s = Undefined =>
                      /\ op.id \in UuidPool
                      /\ \A r \in DOMAIN rooms : op.id \notin Range(Ids(rooms[r].history))
               /\ Reported(last') = op.id

C21_RecordStroke == []C21_AllDefined /\ [][C21_Step]_vars

\* an endStroke without strokeId was stored under an assigned id, after an
\* operation that carries the id its sender supplied
C21_Witness ==
    LET h == HistoryOf(rooms, last.room)
    IN  /\ last.event = "endStroke"
        /\ Len(h) = 2
        /\ h[1].id = "s1"
        /\ h[2].id \in UuidPool
        /\ Reported(last) = h[2].id

\* C22 - No stale target: whatever the interleaving of endStroke, undo, redo and
\* clear requests of the sockets of a room, the id that an undo or a redo
\* reports is the id of an operation that is in the room's log when it is
\* reported.
C22_Step ==
    (last'.event \in {"undo", "redo"} /\ Reported(last') # Undefined)
    => /\ Reported(last') \in Range(Ids(HistoryOf(rooms, last'.room)))
       /\ Reported(last') \in Range(Ids(HistoryOf(rooms', last'.room)))

C22_NoStaleTarget == [][C22_Step]_vars

\* a socket has redone an operation that another socket drew, and the room's log
\* holds it
C22_Witness ==
    LET h == HistoryOf(rooms, last.room)
    IN  /\ last.event = "redo"
        /\ Reported(last) # Undefined
        /\ \E i \in 1..Len(h) : h[i].id = Reported(last) /\ h[i].userId # last.by
        /\ StackOf(rooms, last.room) # <<>>

\* C23 - Every mutation is safe to repeat: when the same endStroke (same
\* strokeId), undo, redo or clear request of a socket is handled twice in a row,
\* the second handling leaves the room's log and undoneStack as the first one
\* left them.
C23_Repeated ==
    /\ last.event \in MutationEvents
    /\ last'.event = last.event
    /\ last'.by = last.by
    /\ last'.room = last.room
    /\ last.event = "endStroke" =>
           (Reported(last) \in StrokeIds /\ Reported(last') = Reported(last))

C23_Step ==
    C23_Repeated
    => /\ HistoryOf(rooms', last'.room) = HistoryOf(rooms, last'.room)
       /\ StackOf(rooms', last'.room) = StackOf(rooms, last'.room)

C23_RepeatSafe == [][C23_Step]_vars

\* C24 - Client-side de-duplication: a client that handles an endStroke broadcast
\* whose id its local history already holds (its own stroke, appended at
\* pointerup) leaves the local history as it was; the endStroke handler and
\* endLocalStroke append an id only when the local history does not hold it.
C24_Added(c, id) ==
    /\ Find(history[c], id) => history'[c] = history[c]
    /\ ~Find(history[c], id) => history'[c] = Append(history[c], id)

C24_Step ==
    \A c \in Conns :
        /\ (HeadIs(s2c, c, "endStroke") /\ received'[c] # received[c])
               => C24_Added(c, Head(s2c[c]).opId)
        /\ (currentStroke[c] # Undefined /\ currentStroke'[c] = Undefined)
               => C24_Added(c, currentStroke[c])

C24_ClientDedup == [][C24_Step]_vars

\* a client has handled the server's echo of the stroke it drew itself, and its
\* local history holds that id once
C24_Witness ==
    \E c \in Conns :
        /\ joined[c]
        /\ received[c] # <<>>
        /\ LET m == received[c][Len(received[c])]
               h == HistoryOf(rooms, RoomIdOf(c))
           IN  /\ m.event = "endStroke"
               /\ \E i \in 1..Len(h) : h[i].id = m.opId /\ h[i].userId = c
               /\ history[c] = <<m.opId>>

\* C25 - The suppressed operations form a suffix of the log: in every reachable
\* room state the undoneStack, read from first to last, is the ids of the last k
\* logged operations in reverse log order for some k, and the visible operations
\* (those whose id is not in undoneStack) are a prefix of the log.
C25_StackIsSuffix ==
    \A r \in DOMAIN rooms :
        LET h == rooms[r].history
            st == rooms[r].undoneStack
        IN  /\ Len(st) <= Len(h)
            /\ \A i \in 1..Len(st) : st[i] = h[Len(h) + 1 - i].id

C25_VisibleIsPrefix ==
    \A r \in DOMAIN rooms :
        LET h == rooms[r].history
            st == rooms[r].undoneStack
        IN  \A i, j \in 1..Len(h) :
                (i < j /\ ~Includes(st, h[j].id)) => ~Includes(st, h[i].id)

C25_SuppressedSuffix == C25_StackIsSuffix /\ C25_VisibleIsPrefix

\* C26 - Membership is consistent with connections: in every reachable state a
\* socket is in the users map of at most one room, the room it joined last, and
\* once its disconnect has been handled it is in no room's users map, also when
\* it has sent join more than once with different room ids.
UsersRooms(c) == {r \in DOMAIN rooms : c \in rooms[r].users}

C26_Membership ==
    \A c \in Conns :
        /\ UsersRooms(c) \subseteq {sockRoom[c]}
        /\ sockState[c] = "closed" => UsersRooms(c) = {}

\* C27 - An unjoined socket cannot change shared state: an endStroke, undo, redo
\* or clear sent by a socket that has not joined any room leaves the log and
\* undoneStack of every room as they were.
C27_Step ==
    (last'.event \in MutationEvents /\ last'.by \in Conns /\ sockRoom[last'.by] = Undefined)
    => \A r \in RoomNames :
           /\ HistoryOf(rooms', r) = HistoryOf(rooms, r)
           /\ StackOf(rooms', r) = StackOf(rooms, r)

C27_UnjoinedInert == [][C27_Step]_vars

\* C28 - drawing-state.js and the server's handlers implement the same state
\* machine: from a room state that both hold, addOperationToRoom /
\* requestUndoInRoom / requestRedoInRoom / clearRoomHistory leave the same
\* history and the same undoneStack as the endStroke / undo / redo / clear
\* handler, and return the id the handler broadcasts (null where the handler
\* broadcasts nothing); so they agree on every sequence of requests on a room.
DrawingStates(rs) ==
    [r \in DOMAIN rs |-> [history |-> rs[r].history, undoneStack |-> rs[r].undoneStack]]

NullOr(id) == IF id = Undefined THEN Null ELSE id

C28_Same(out) ==
    \A r \in RoomNames :
        getDrawingState(out.states, r) = getDrawingState(DrawingStates(rooms'), r)

C28_Step ==
    LET r == last'.room
        dss == DrawingStates(rooms)
        h == HistoryOf(rooms', r)
    IN  /\ last'.event = "endStroke" =>
               LET out == addOperationToRoom(dss, r, h[Len(h)])
               IN  C28_Same(out) /\ out.result.id = Reported(last')
        /\ last'.event = "undo" =>
               LET out == requestUndoInRoom(dss, r)
               IN  C28_Same(out) /\ out.result = NullOr(Reported(last'))
        /\ last'.event = "redo" =>
               LET out == requestRedoInRoom(dss, r)
               IN  C28_Same(out) /\ out.result = NullOr(Reported(last'))
        /\ last'.event = "clear" =>
               C28_Same(clearRoomHistory(dss, r))

C28_SameMachine == [][C28_Step]_vars

\* the handlers have undone both operations of a log, and the module too has
\* nothing left to undo in that room state but something to redo
C28_Witness ==
    LET h == HistoryOf(rooms, last.room)
        dss == DrawingStates(rooms)
    IN  /\ last.event = "undo"
        /\ Len(h) = 2
        /\ Reported(last) = h[1].id
        /\ requestUndoInRoom(dss, last.room).result = Null
        /\ requestRedoInRoom(dss, last.room).result = h[1].id

====
